---- MODULE Spec2Model ----
(***************************************************************************)
(* Model of the IBKR wrapper (src/src/ibkr): the connection object IBapi    *)
(* with its shared buffers, the blocking request operations of             *)
(* EquityPortfolio and IBAccount, the broker thread that delivers           *)
(* callbacks, the contract registries and the order-quantity arithmetic.   *)
(*                                                                         *)
(* The specifications share the variables:                                *)
(*   Spec      one connection: a caller thread running get_quotes,         *)
(*             request_historical_data, request_positions and              *)
(*             request_positions_multi, interleaved with the callbacks of  *)
(*             the socket thread (conn.run in ibkr_demo.py);               *)
(*   SpecReg   a contract registry under construction, add, remove and     *)
(*             assignment;                                                 *)
(*   SpecCalc  calc_order_quantities applied to bounded inputs;            *)
(*   SpecOrd   prepare_orders and place_orders of a portfolio on a         *)
(*             connection whose order id the broker announces;             *)
(*   SpecPort  an EquityPortfolio under construction and assignment to     *)
(*             its contracts and nav properties.                           *)
(***************************************************************************)
EXTENDS Integers, Sequences, FiniteSets, TLC

VARIABLES
    \* ---- IBapi (api.py) ----
    nextreqId,      \* IBapi._nextreqId
    data_current,   \* IBapi.data_current : tick name -> price
    data_hist,      \* IBapi.data_hist    : list of bar rows
    data_account,   \* IBapi.data_account : list of position rows
    \* ---- the caller thread ----
    pc,             \* position of the caller in the running operation
    tick_type,      \* argument of get_quotes
    idx,            \* loop index over symbols / contracts (1-based)
    quotes,         \* local dict of request_market_data : symbol -> dict
    hist_out,       \* local data_hist frame of request_historical_data
    positions,      \* IBAccount._positions : [columns, rows]
    result,         \* what the last finished operation gave its caller
    calls,          \* operations started so far
    \* ---- the broker and the socket thread ----
    reqs,           \* requests received by the broker, with what it sent back
    events,         \* callbacks delivered so far
    \* ---- contracts.py ----
    regClass,       \* "EquityContracts" or "FXContracts"
    contract_list,  \* IBContracts._contract_list
    regOut,         \* outcome of the last registry operation
    \* ---- portfolios.py, order arithmetic ----
    nav,            \* IBPortfolio._nav
    calcIn,         \* arguments of calc_order_quantities
    calcOut,        \* its outcome
    \* ---- portfolios.py, orders ----
    nextorderId,    \* IBapi.nextorderId, set by nextValidId
    orders,         \* what the last prepare_orders gave its caller
    issued,         \* ids given to Order objects so far, in the order given
    placeOut,       \* the last place_orders: its outcome and the placeOrder calls
    \* ---- portfolios.py, the portfolio object ----
    pfContracts,    \* class of IBPortfolio._contracts, None before construction
    pfOut           \* the last constructor or setter call on the portfolio

connVars == <<nextreqId, data_current, data_hist, data_account, pc, tick_type,
              idx, quotes, hist_out, positions, result, calls, reqs, events>>
regVars == <<regClass, contract_list, regOut>>
ordVars == <<nextorderId, orders, issued, placeOut>>
pfVars == <<pfContracts, pfOut>>
calcVars == <<nav, calcIn, calcOut, ordVars, pfVars>>
vars == <<connVars, regVars, calcVars>>

(***************************************************************************)
(* Bounds of the model.                                                    *)
(***************************************************************************)
MaxCalls == 2       \* operations the caller starts in one session
MaxEvents == 3      \* callbacks the broker delivers in one session
MaxPrice == 2       \* prices are 1..MaxPrice

Prices == 1..MaxPrice
None == "None"
EmptyMap == [x \in {} |-> 0]

\* dict[key] = value
Put(d, k, v) == [x \in DOMAIN d \cup {k} |-> IF x = k THEN v ELSE d[x]]

(***************************************************************************)
(* Contracts (ibapi.contract.Contract as the registries use it).           *)
(***************************************************************************)
MkContract(secType, symbol, currency, exchange) ==
    [secType |-> secType, symbol |-> symbol, currency |-> currency,
     exchange |-> exchange]

\* IBContracts.get_symbols
get_symbols(cl) == [i \in 1..Len(cl) |-> cl[i].symbol]

\* list.index: the first position holding x (0 when absent)
IndexOf(s, x) ==
    IF \E i \in 1..Len(s) : s[i] = x
    THEN CHOOSE i \in 1..Len(s) : s[i] = x /\ \A j \in 1..(i - 1) : s[j] # x
    ELSE 0

\* IBContracts.get_contract: the first member with that symbol, or None
get_contract(cl, symbol) ==
    IF IndexOf(get_symbols(cl), symbol) # 0
    THEN cl[IndexOf(get_symbols(cl), symbol)]
    ELSE None

\* The registry of the portfolio the connection serves: as the demo builds it,
\* EquityContracts([]) followed by add_contract_from_symbol per symbol.
PortfolioContracts ==
    <<MkContract("STK", "A", "CHF", "SMART"), MkContract("STK", "B", "CHF", "SMART")>>

(***************************************************************************)
(* Tick types: TickTypeEnum.to_str maps the numeric tick type of the       *)
(* callback to the name data_current is keyed by.                          *)
(***************************************************************************)
TickTypes == {1, 9}
TickTypeToStr(t) == CASE t = 1 -> "BID" [] t = 9 -> "CLOSE"

(***************************************************************************)
(* The broker's view of a request: the id and kind it was sent with, the   *)
(* instrument, and the log of what the broker sent back for it. Each log   *)
(* entry carries the payload and the phase the request was in when the     *)
(* callback ran: "wait" (the caller still sleeps on it), "read" (the       *)
(* caller has read the buffer), "returned" (the operation has returned).   *)
(* An entry with end = TRUE is the end-of-stream signal of the request.    *)
(***************************************************************************)
NewReq(id, kind, sym) ==
    [id |-> id, kind |-> kind, sym |-> sym, call |-> calls, st |-> "wait",
     log |-> <<>>]

Logged(r, payload) ==
    [reqs EXCEPT ![r].log =
        Append(@, [ev |-> payload, ph |-> reqs[r].st, end |-> FALSE])]

LoggedEnd(r) ==
    [reqs EXCEPT ![r].log = Append(@, [ev |-> <<>>, ph |-> reqs[r].st, end |-> TRUE])]

Ended(r) == \E k \in 1..Len(reqs[r].log) : reqs[r].log[k].end

\* the caller has read the buffer for the request it was sleeping on
MarkRead(rs) ==
    [r \in 1..Len(rs) |->
        IF rs[r].call = calls /\ rs[r].st = "wait"
        THEN [rs[r] EXCEPT !.st = "read"] ELSE rs[r]]

\* the running operation returns: its requests are resolved
MarkReturned(rs) ==
    [r \in 1..Len(rs) |->
        IF rs[r].call = calls THEN [rs[r] EXCEPT !.st = "returned"] ELSE rs[r]]

(***************************************************************************)
(* IBapi.nextreqId (property): returns the current id and advances it.     *)
(***************************************************************************)
NoneId == 0 - 1   \* None where the code holds an integer id
NextReqIdAfter(n) == IF n = NoneId THEN 0 ELSE n + 1

(***************************************************************************)
(* pandas.DataFrame(rows, columns = cols): the frame is as wide as the     *)
(* longest row and a width other than the number of columns raises         *)
(* ValueError; an empty list gives an empty frame with the columns. The    *)
(* frame keeps the rows as given: a row shorter than the frame reads as    *)
(* None in the columns it lacks (FrameCell).                               *)
(***************************************************************************)
Max(S) == CHOOSE x \in S : \A y \in S : y <= x

Width(rows) == IF rows = <<>> THEN 0 ELSE Max({Len(rows[i]) : i \in 1..Len(rows)})

FrameOk(rows, cols) == rows = <<>> \/ Width(rows) = Len(cols)

Frame(rows, cols) == [columns |-> cols, rows |-> rows]

FrameCell(f, i, j) == IF j <= Len(f.rows[i]) THEN f.rows[i][j] ELSE None

PosColumns == <<"Account", "Contract", "Position", "AvgCost">>
MultiColumns == <<"RequestId", "Account", "ModelCode", "Contract", "Position", "AvgCost">>

ACCOUNT_ID == "DU6755222"

(***************************************************************************)
(* The caller thread.                                                      *)
(*                                                                         *)
(* IBPortfolio.get_quotes -> EquityPortfolio.request_market_data           *)
(***************************************************************************)
Symbols == get_symbols(contract_list)

\* get_quotes is called; request_market_data clears data_current and starts
\* its loop over the symbols
GetQuotes_Call ==
    /\ pc = "idle"
    /\ calls < MaxCalls
    /\ \E tt \in {"", "BID"} : tick_type' = tt
    /\ calls' = calls + 1
    /\ data_current' = EmptyMap
    /\ quotes' = EmptyMap
    /\ idx' = 1
    /\ pc' = IF Symbols = <<>> THEN "md_ret" ELSE "md_req"
    /\ UNCHANGED <<regVars, calcVars, nextreqId, data_hist, data_account, hist_out, positions,
                   result, reqs, events>>

\* connection.reqMktData(reqId = connection.nextreqId, contract = ...)
MarketData_Request ==
    /\ pc = "md_req"
    /\ reqs' = Append(reqs, NewReq(nextreqId, "mkt",
                                   get_contract(contract_list, Symbols[idx]).symbol))
    /\ nextreqId' = NextReqIdAfter(nextreqId)
    /\ pc' = "md_sleep"
    /\ UNCHANGED <<regVars, calcVars, data_current, data_hist, data_account, tick_type, idx, quotes,
                   hist_out, positions, result, calls, events>>

\* time.sleep(1) is over: quotes[symbol] = connection.data_current.copy()
MarketData_Copy ==
    /\ pc = "md_sleep"
    /\ quotes' = Put(quotes, Symbols[idx], data_current)
    /\ reqs' = MarkRead(reqs)
    /\ idx' = idx + 1
    /\ pc' = IF idx < Len(Symbols) THEN "md_req" ELSE "md_ret"
    /\ UNCHANGED <<regVars, calcVars, nextreqId, data_current, data_hist, data_account, tick_type,
                   hist_out, positions, result, calls, events>>

\* the tick name get_quotes looks up
LookupTick(tt) == IF tt = "" THEN "CLOSE" ELSE tt

\* request_market_data has returned quotes; get_quotes builds
\* {symbol: quotes_dict[symbol][tick_type]}, a KeyError when a symbol's dict
\* has no entry for the tick type
GetQuotes_Return ==
    /\ pc = "md_ret"
    /\ result' =
         IF \A s \in DOMAIN quotes : LookupTick(tick_type) \in DOMAIN quotes[s]
         THEN [op |-> "get_quotes", outcome |-> "ok",
               value |-> [s \in DOMAIN quotes |-> quotes[s][LookupTick(tick_type)]]]
         ELSE [op |-> "get_quotes", outcome |-> "KeyError", value |-> None]
    /\ reqs' = MarkReturned(reqs)
    /\ pc' = "idle"
    /\ UNCHANGED <<regVars, calcVars, nextreqId, data_current, data_hist, data_account, tick_type,
                   idx, quotes, hist_out, positions, calls, events>>

(***************************************************************************)
(* EquityPortfolio.request_historical_data                                 *)
(***************************************************************************)
HistoricalData_Call ==
    /\ pc = "idle"
    /\ calls < MaxCalls
    /\ calls' = calls + 1
    /\ hist_out' = <<>>
    /\ idx' = 1
    /\ pc' = IF contract_list = <<>> THEN "h_ret" ELSE "h_clear"
    /\ UNCHANGED <<regVars, calcVars, nextreqId, data_current, data_hist, data_account, tick_type,
                   quotes, positions, result, reqs, events>>

\* connection.clear_data_hist()
HistoricalData_Clear ==
    /\ pc = "h_clear"
    /\ data_hist' = <<>>
    /\ pc' = "h_req"
    /\ UNCHANGED <<regVars, calcVars, nextreqId, data_current, data_account, tick_type, idx, quotes,
                   hist_out, positions, result, calls, reqs, events>>

\* connection.reqHistoricalData(reqId = reqId + 1, ...), reqId from enumerate
HistoricalData_Request ==
    /\ pc = "h_req"
    /\ reqs' = Append(reqs, NewReq((idx - 1) + 1, "hist", contract_list[idx].symbol))
    /\ pc' = "h_sleep"
    /\ UNCHANGED <<regVars, calcVars, nextreqId, data_current, data_hist, data_account, tick_type,
                   idx, quotes, hist_out, positions, result, calls, events>>

\* a row of the returned frame: the bar row indexed by (date, symbol)
HistRow(row, symbol) ==
    [date |-> row[1], symbol |-> symbol, open |-> row[2], high |-> row[3],
     low |-> row[4], close |-> row[5], volume |-> row[6]]

\* time.sleep(1) is over: the rows of connection.data_hist become the frame
\* of this contract and are concatenated to the result
HistoricalData_Read ==
    /\ pc = "h_sleep"
    /\ hist_out' = hist_out \o
         [i \in 1..Len(data_hist) |-> HistRow(data_hist[i], contract_list[idx].symbol)]
    /\ reqs' = MarkRead(reqs)
    /\ idx' = idx + 1
    /\ pc' = IF idx < Len(contract_list) THEN "h_clear" ELSE "h_ret"
    /\ UNCHANGED <<regVars, calcVars, nextreqId, data_current, data_hist, data_account, tick_type,
                   quotes, positions, result, calls, events>>

HistoricalData_Return ==
    /\ pc = "h_ret"
    /\ result' = [op |-> "request_historical_data", outcome |-> "ok",
                  value |-> hist_out]
    /\ reqs' = MarkReturned(reqs)
    /\ pc' = "idle"
    /\ UNCHANGED <<regVars, calcVars, nextreqId, data_current, data_hist, data_account, tick_type,
                   idx, quotes, hist_out, positions, calls, events>>

(***************************************************************************)
(* IBAccount.request_positions and IBAccount.request_positions_multi       *)
(***************************************************************************)
\* connection.clear_data_account()
Positions_Clear ==
    /\ pc = "idle"
    /\ calls < MaxCalls
    /\ calls' = calls + 1
    /\ data_account' = <<>>
    /\ pc' = "p_req"
    /\ UNCHANGED <<regVars, calcVars, nextreqId, data_current, data_hist, tick_type, idx, quotes,
                   hist_out, positions, result, reqs, events>>

\* connection.reqPositions(): the request carries no id
Positions_Request ==
    /\ pc = "p_req"
    /\ reqs' = Append(reqs, NewReq(NoneId, "pos", None))
    /\ pc' = "p_sleep"
    /\ UNCHANGED <<regVars, calcVars, nextreqId, data_current, data_hist, data_account, tick_type,
                   idx, quotes, hist_out, positions, result, calls, events>>

\* time.sleep(1) is over: df = pd.DataFrame(connection.data_account, columns)
\* and self.positions = df.copy(); a ValueError of the constructor leaves
\* self.positions as it was
ReadPositions(op, cols) ==
    /\ IF FrameOk(data_account, cols)
       THEN /\ positions' = Frame(data_account, cols)
            /\ result' = [op |-> op, outcome |-> "ok", value |-> None]
       ELSE /\ positions' = positions
            /\ result' = [op |-> op, outcome |-> "ValueError", value |-> None]
    /\ reqs' = MarkReturned(MarkRead(reqs))
    /\ pc' = "idle"
    /\ UNCHANGED <<regVars, calcVars, nextreqId, data_current, data_hist, data_account, tick_type,
                   idx, quotes, hist_out, calls, events>>

Positions_Read ==
    /\ pc = "p_sleep"
    /\ ReadPositions("request_positions", PosColumns)

PositionsMulti_Clear ==
    /\ pc = "idle"
    /\ calls < MaxCalls
    /\ calls' = calls + 1
    /\ data_account' = <<>>
    /\ pc' = "pm_req"
    /\ UNCHANGED <<regVars, calcVars, nextreqId, data_current, data_hist, tick_type, idx, quotes,
                   hist_out, positions, result, reqs, events>>

\* connection.reqPositionsMulti(reqId = connection.nextreqId, account, modelCode)
PositionsMulti_Request ==
    /\ pc = "pm_req"
    /\ reqs' = Append(reqs, NewReq(nextreqId, "multi", None))
    /\ nextreqId' = NextReqIdAfter(nextreqId)
    /\ pc' = "pm_sleep"
    /\ UNCHANGED <<regVars, calcVars, data_current, data_hist, data_account, tick_type, idx, quotes,
                   hist_out, positions, result, calls, events>>

PositionsMulti_Read ==
    /\ pc = "pm_sleep"
    /\ ReadPositions("request_positions_multi", MultiColumns)

(***************************************************************************)
(* The socket thread: callbacks of IBapi (EWrapper). The broker answers a  *)
(* request it has received, at any later time: market data is a streaming  *)
(* subscription (snapshot = False), historical bars end with the           *)
(* end-of-data signal, positions keep coming as updates after the          *)
(* end-of-positions signal.                                                *)
(***************************************************************************)
ReqsOf(kind) == {r \in 1..Len(reqs) : reqs[r].kind = kind}

\* IBapi.tickPrice(reqId, tickType, price, attrib)
tickPrice ==
    /\ events < MaxEvents
    /\ \E r \in ReqsOf("mkt"), t \in TickTypes, p \in Prices :
          /\ data_current' = Put(data_current, TickTypeToStr(t), p)
          /\ reqs' = Logged(r, <<t, p>>)
    /\ events' = events + 1
    /\ UNCHANGED <<regVars, calcVars, nextreqId, data_hist, data_account, pc, tick_type, idx, quotes,
                   hist_out, positions, result, calls>>

\* the bars the broker may send as the k-th bar of a series
Bars(k) ==
    {[date |-> k, open |-> p, high |-> p, low |-> p, close |-> p, volume |-> 100] :
        p \in Prices}

BarRow(bar) == <<bar.date, bar.open, bar.high, bar.low, bar.close, bar.volume>>

\* IBapi.historicalData(reqId, bar)
historicalData ==
    /\ events < MaxEvents
    /\ \E r \in ReqsOf("hist") :
          /\ ~Ended(r)
          /\ \E bar \in Bars(Len(reqs[r].log) + 1) :
                /\ data_hist' = Append(data_hist, BarRow(bar))
                /\ reqs' = Logged(r, BarRow(bar))
    /\ events' = events + 1
    /\ UNCHANGED <<regVars, calcVars, nextreqId, data_current, data_account, pc, tick_type, idx,
                   quotes, hist_out, positions, result, calls>>

\* EWrapper.historicalDataEnd(reqId, start, end): IBapi does not override it
historicalDataEnd ==
    /\ events < MaxEvents
    /\ \E r \in ReqsOf("hist") :
          /\ ~Ended(r)
          /\ reqs' = LoggedEnd(r)
    /\ events' = events + 1
    /\ UNCHANGED <<regVars, calcVars, nextreqId, data_current, data_hist, data_account, pc, tick_type,
                   idx, quotes, hist_out, positions, result, calls>>

\* the holdings the broker may report
Holdings == {<<PortfolioContracts[i], 10 * i>> : i \in 1..Len(PortfolioContracts)}

\* IBapi.position(account, contract, position, avgCost)
position ==
    /\ events < MaxEvents
    /\ \E r \in ReqsOf("pos"), h \in Holdings :
          /\ data_account' = Append(data_account, <<ACCOUNT_ID, h[1], h[2], 1>>)
          /\ reqs' = Logged(r, <<ACCOUNT_ID, h[1], h[2], 1>>)
    /\ events' = events + 1
    /\ UNCHANGED <<regVars, calcVars, nextreqId, data_current, data_hist, pc, tick_type, idx, quotes,
                   hist_out, positions, result, calls>>

\* IBapi.positionEnd(): prints only
positionEnd ==
    /\ events < MaxEvents
    /\ \E r \in ReqsOf("pos") :
          /\ ~Ended(r)
          /\ reqs' = LoggedEnd(r)
    /\ events' = events + 1
    /\ UNCHANGED <<regVars, calcVars, nextreqId, data_current, data_hist, data_account, pc, tick_type,
                   idx, quotes, hist_out, positions, result, calls>>

\* IBapi.positionMulti(reqId, account, modelCode, contract, pos, avgCost)
positionMulti ==
    /\ events < MaxEvents
    /\ \E r \in ReqsOf("multi"), h \in Holdings :
          /\ data_account' =
               Append(data_account, <<reqs[r].id, ACCOUNT_ID, "", h[1], h[2], 1>>)
          /\ reqs' = Logged(r, <<reqs[r].id, ACCOUNT_ID, "", h[1], h[2], 1>>)
    /\ events' = events + 1
    /\ UNCHANGED <<regVars, calcVars, nextreqId, data_current, data_hist, pc, tick_type, idx, quotes,
                   hist_out, positions, result, calls>>

\* IBapi.positionMultiEnd(reqId): prints only
positionMultiEnd ==
    /\ events < MaxEvents
    /\ \E r \in ReqsOf("multi") :
          /\ ~Ended(r)
          /\ reqs' = LoggedEnd(r)
    /\ events' = events + 1
    /\ UNCHANGED <<regVars, calcVars, nextreqId, data_current, data_hist, data_account, pc, tick_type,
                   idx, quotes, hist_out, positions, result, calls>>

(***************************************************************************)
(* The connection after IBapi(), with the portfolio of the demo and a      *)
(* fresh IBAccount.                                                        *)
(***************************************************************************)
NoResult == [op |-> None, outcome |-> None, value |-> None]

ConnInit ==
    /\ nextreqId = 0
    /\ data_current = EmptyMap
    /\ data_hist = <<>>
    /\ data_account = <<>>
    /\ pc = "idle"
    /\ tick_type = ""
    /\ idx = 1
    /\ quotes = EmptyMap
    /\ hist_out = <<>>
    /\ positions = [columns |-> <<>>, rows |-> <<>>]
    /\ result = NoResult
    /\ calls = 0
    /\ reqs = <<>>
    /\ events = 0

\* IBapi has no attribute nextorderId until nextValidId has run
NoAttr == 0 - 1

\* no prepare_orders and no place_orders has run
NoOrders == [outcome |-> None, keys |-> <<>>, value |-> EmptyMap, quantities |-> EmptyMap]

NoPlace == [outcome |-> None, returned |-> None, calls |-> <<>>]

\* no constructor or setter of a portfolio has run
NoPfOut == [op |-> None, arg |-> None, outcome |-> None]

\* no registry operation has run
NoRegOut == [op |-> None, arg |-> None, outcome |-> None]

\* no registry constructed yet, no order arithmetic done
RegIdle ==
    /\ regClass = None
    /\ contract_list = <<>>
    /\ regOut = NoRegOut

CalcIdle ==
    /\ calcIn = [keys |-> <<>>, w_init |-> EmptyMap, w_new |-> EmptyMap,
                 quotes |-> EmptyMap,
                 nav |-> [given |-> FALSE, v |-> <<0, 1>>]]
    /\ calcOut = [outcome |-> None, value |-> EmptyMap]
    /\ nextorderId = NoAttr
    /\ orders = NoOrders
    /\ issued = <<>>
    /\ placeOut = NoPlace
    /\ pfContracts = None
    /\ pfOut = NoPfOut

\* the registry of the portfolio and its NAV as ibkr_demo.py sets them up
Init ==
    /\ ConnInit
    /\ regClass = "EquityContracts"
    /\ contract_list = PortfolioContracts
    /\ regOut = NoRegOut
    /\ nav = <<50000, 1>>
    /\ CalcIdle

Next ==
    \/ GetQuotes_Call
    \/ MarketData_Request
    \/ MarketData_Copy
    \/ GetQuotes_Return
    \/ HistoricalData_Call
    \/ HistoricalData_Clear
    \/ HistoricalData_Request
    \/ HistoricalData_Read
    \/ HistoricalData_Return
    \/ Positions_Clear
    \/ Positions_Request
    \/ Positions_Read
    \/ PositionsMulti_Clear
    \/ PositionsMulti_Request
    \/ PositionsMulti_Read
    \/ tickPrice
    \/ historicalData
    \/ historicalDataEnd
    \/ position
    \/ positionEnd
    \/ positionMulti
    \/ positionMultiEnd

Spec == Init /\ [][Next]_vars

(***************************************************************************)
(* The contract registries (contracts.py).                                 *)
(*                                                                         *)
(* A Python value handed to the registry is modelled with its type: a      *)
(* list argument is [type, items], an item is [type, c] with c the         *)
(* contract when the item is a Contract.                                   *)
(***************************************************************************)
MaxLen == 3         \* members a registry holds at most in the model
MaxArgLen == 2      \* length of a list handed to the constructor or setter

RegSymbols == {"A", "B"}
RegClasses == {"EquityContracts", "FXContracts"}

\* the secType add_contract accepts and add_contract_from_symbol sets
FixedSecType(class) == IF class = "EquityContracts" THEN "STK" ELSE "CASH"

\* the default exchange of add_contract_from_symbol
DefaultExchange(class) == IF class = "EquityContracts" THEN "SMART" ELSE "IDEALPRO"

ContractUniverse ==
    {MkContract(t, sym, "USD", IF t = "STK" THEN "SMART" ELSE "IDEALPRO") :
        t \in {"STK", "CASH"}, sym \in RegSymbols}

SeqsUpTo(S, n) == UNION {[1..k -> S] : k \in 0..n}

Items == {[type |-> "Contract", c |-> c] : c \in ContractUniverse}
           \cup {[type |-> "str", c |-> MkContract("", "", "", "")]}

ListArgs ==
    {[type |-> "list", items |-> it] : it \in SeqsUpTo(Items, MaxArgLen)}
        \cup {[type |-> "NoneType", items |-> <<>>]}

\* the check of the contract_list setter:
\* isinstance(value, list) and (not value or all(isinstance(i, Contract) ...))
IsContractList(value) ==
    /\ value.type = "list"
    /\ (value.items = <<>>
          \/ \A i \in 1..Len(value.items) : value.items[i].type = "Contract")

ListOf(value) == [i \in 1..Len(value.items) |-> value.items[i].c]

\* the characters of a symbol string
Chars(sym) ==
    CASE sym = "" -> <<>>
      [] sym = " " -> <<" ">>
      [] sym = "  " -> <<" ", " ">>
      [] sym = "A" -> <<"A">>
      [] sym = "B" -> <<"B">>
      [] sym = " A" -> <<" ", "A">>

\* str.strip(): leading and trailing whitespace removed
RECURSIVE LStrip(_)
LStrip(cs) == IF cs # <<>> /\ Head(cs) = " " THEN LStrip(Tail(cs)) ELSE cs

RECURSIVE RStrip(_)
RStrip(cs) ==
    IF cs # <<>> /\ cs[Len(cs)] = " " THEN RStrip(SubSeq(cs, 1, Len(cs) - 1)) ELSE cs

Strip(cs) == RStrip(LStrip(cs))

\* a symbol argument: a str with its text, or an object of another type
SymbolArgs ==
    {[type |-> "str", text |-> t] : t \in {"", " ", "  ", "A", "B", " A"}}
        \cup {[type |-> "int", text |-> ""]}

\* not isinstance(symbol, str) or not symbol
IsEmptySymbol(symbol) == symbol.type # "str" \/ symbol.text = ""

\* not isinstance(symbol, str) or not symbol.strip()
IsBlankSymbol(symbol) == symbol.type # "str" \/ Strip(Chars(symbol.text)) = <<>>

\* the list without its last member
RemoveLast(cl, i) == SubSeq(cl, 1, Len(cl) - 1)

\* list.remove(x) for the member at position i
RemoveAt(cl, i) == [j \in 1..(Len(cl) - 1) |-> IF j < i THEN cl[j] ELSE cl[j + 1]]

\* the operation that ran last, its argument (the contract or the symbol; None
\* for a list) and how it ended
RegDone(op, arg, outcome) == regOut' = [op |-> op, arg |-> arg, outcome |-> outcome]

\* EquityContracts(value) / FXContracts(value): IBContracts.__init__ assigns
\* the list through the setter; a TypeError leaves no registry
Construct ==
    /\ regClass = None
    /\ \E class \in RegClasses, value \in ListArgs :
          IF IsContractList(value)
          THEN /\ regClass' = class
               /\ contract_list' = ListOf(value)
               /\ RegDone("__init__", None, "ok")
          ELSE /\ UNCHANGED <<regClass, contract_list>>
               /\ RegDone("__init__", None, "TypeError")
    /\ UNCHANGED <<connVars, calcVars>>

\* registry.contract_list = value
SetContractList ==
    /\ regClass # None
    /\ \E value \in ListArgs :
          IF IsContractList(value)
          THEN /\ contract_list' = ListOf(value)
               /\ RegDone("contract_list", None, "ok")
          ELSE /\ UNCHANGED contract_list
               /\ RegDone("contract_list", None, "TypeError")
    /\ UNCHANGED <<regClass, connVars, calcVars>>

\* add_contract appending before it looks at the secType
add_contract_unchecked_append(contract) ==
    /\ contract_list' = Append(contract_list, contract)
    /\ RegDone("add_contract", contract,
               IF contract.secType = FixedSecType(regClass) THEN "ok" ELSE "ValueError")

\* EquityContracts.add_contract / FXContracts.add_contract
add_contract(contract) ==
    IF contract.secType = FixedSecType(regClass)
    THEN /\ contract_list' = Append(contract_list, contract)
         /\ RegDone("add_contract", contract, "ok")
    ELSE /\ UNCHANGED contract_list
         /\ RegDone("add_contract", contract, "ValueError")

AddContract ==
    /\ regClass # None
    /\ Len(contract_list) < MaxLen
    /\ \E contract \in ContractUniverse : add_contract(contract)
    /\ UNCHANGED <<regClass, connVars, calcVars>>

\* EquityContracts.add_contract_from_symbol / FXContracts.add_contract_from_symbol
add_contract_from_symbol(symbol, currency, exchange) ==
    IF IsBlankSymbol(symbol)
    THEN /\ UNCHANGED contract_list
         /\ RegDone("add_contract_from_symbol", symbol, "ValueError")
    ELSE /\ contract_list' =
              Append(contract_list,
                     MkContract(FixedSecType(regClass), symbol.text, currency, exchange))
         /\ RegDone("add_contract_from_symbol", symbol, "ok")

AddContractFromSymbol ==
    /\ regClass # None
    /\ Len(contract_list) < MaxLen
    /\ \E symbol \in SymbolArgs :
          add_contract_from_symbol(symbol, "USD", DefaultExchange(regClass))
    /\ UNCHANGED <<regClass, connVars, calcVars>>

\* IBContracts.remove_contract: self.contract_list.remove(self.get_contract(symbol));
\* get_contract gives None for an absent symbol and list.remove(None) raises
\* ValueError
remove_contract(symbol) ==
    IF IndexOf(get_symbols(contract_list), symbol) # 0
    THEN /\ contract_list' =
              RemoveAt(contract_list, IndexOf(get_symbols(contract_list), symbol))
         /\ RegDone("remove_contract", symbol, "ok")
    ELSE /\ UNCHANGED contract_list
         /\ RegDone("remove_contract", symbol, "ValueError")

RemoveContract ==
    /\ regClass # None
    /\ \E symbol \in RegSymbols \cup {" A"} : remove_contract(symbol)
    /\ UNCHANGED <<regClass, connVars, calcVars>>

InitReg ==
    /\ ConnInit
    /\ RegIdle
    /\ nav = <<0, 1>>
    /\ CalcIdle

NextReg ==
    \/ Construct
    \/ SetContractList
    \/ AddContract
    \/ AddContractFromSymbol
    \/ RemoveContract

SpecReg == InitReg /\ [][NextReg]_vars

(***************************************************************************)
(* IBPortfolio.calc_order_quantities (portfolios.py).                      *)
(*                                                                         *)
(* A float is modelled as an exact fraction <<numerator, denominator>>     *)
(* with a positive denominator; <<0, 0>> is NaN. Weights are taken in      *)
(* units of 1/WeightDen and NAV and quotes as whole numbers, so that the   *)
(* fractions of the model are the values the floats hold.                  *)
(***************************************************************************)
MaxWeight == 2      \* weights are 0/WeightDen .. MaxWeight/WeightDen
WeightDen == 4
MaxQuote == 2       \* quotes are 0..MaxQuote
MaxNav == 5         \* NAVs are 0..MaxNav, or NaN

NaN == <<0, 0>>
IsNaN(x) == x[2] = 0

CalcSymbols == {"A", "B"}
Weights == {<<k, WeightDen>> : k \in 0..MaxWeight}
QuoteValues == {<<k, 1>> : k \in 0..MaxQuote}
Navs == {<<k, 1>> : k \in 0..MaxNav} \cup {NaN}

Maps(K, V) == UNION {[S -> V] : S \in SUBSET K}

\* a - b
FSub(a, b) ==
    IF IsNaN(a) \/ IsNaN(b) THEN NaN ELSE <<a[1] * b[2] - b[1] * a[2], a[2] * b[2]>>

\* a * b
FMul(a, b) == IF IsNaN(a) \/ IsNaN(b) THEN NaN ELSE <<a[1] * b[1], a[2] * b[2]>>

\* a / b for b # 0
FDiv(a, b) ==
    IF IsNaN(a) \/ IsNaN(b) THEN NaN
    ELSE IF b[1] > 0 THEN <<a[1] * b[2], a[2] * b[1]>>
    ELSE <<(0 - a[1]) * b[2], a[2] * (0 - b[1])>>

\* a rounding down instead of toward zero
IntOfFloor(x) == x[1] \div x[2]

\* int(x) for a finite x: the fractional part is dropped
IntOf(x) == IF x[1] >= 0 THEN x[1] \div x[2] ELSE 0 - ((0 - x[1]) \div x[2])

\* the nav the loop uses: if nav is None: nav = self.nav
NavUsed(arg) == IF arg.given THEN arg.v ELSE nav

\* (w_new[key] - w_init[key]) * nav / quotes[key]
Quantity(w_init, w_new, q, navUsed, key) ==
    FDiv(FMul(FSub(w_new[key], w_init[key]), navUsed), q[key])

\* what evaluating the loop body for a key raises, "ok" when it raises nothing:
\* w_new[key] and quotes[key] raise KeyError, the division ZeroDivisionError,
\* int() of NaN ValueError
KeyOutcome(w_init, w_new, q, navUsed, key) ==
    IF key \notin DOMAIN w_new THEN "KeyError"
    ELSE IF key \notin DOMAIN q THEN "KeyError"
    ELSE IF q[key][1] = 0 THEN "ZeroDivisionError"
    ELSE IF IsNaN(Quantity(w_init, w_new, q, navUsed, key)) THEN "ValueError"
    ELSE "ok"

\* the orders in which a dict with the key set S can hold its keys
KeyOrders(S) ==
    {o \in [1..Cardinality(S) -> S] : \A i, j \in DOMAIN o : i # j => o[i] # o[j]}

\* the position in keys of the first key whose loop body raises, 0 when none does
FirstRaising(keys, w_init, w_new, q, navUsed) ==
    IF \E i \in DOMAIN keys : KeyOutcome(w_init, w_new, q, navUsed, keys[i]) # "ok"
    THEN CHOOSE i \in DOMAIN keys :
            /\ KeyOutcome(w_init, w_new, q, navUsed, keys[i]) # "ok"
            /\ \A j \in 1..(i - 1) : KeyOutcome(w_init, w_new, q, navUsed, keys[j]) = "ok"
    ELSE 0

\* the loop returning the quantities computed before the key that raised
calc_order_quantities_partial(keys, w_init, w_new, q, arg) ==
    LET n == FirstRaising(keys, w_init, w_new, q, NavUsed(arg))
        done == IF n = 0 THEN DOMAIN w_init ELSE {keys[j] : j \in 1..(n - 1)}
    IN  [outcome |-> IF n = 0 THEN "ok"
                     ELSE KeyOutcome(w_init, w_new, q, NavUsed(arg), keys[n]),
         value |-> [key \in done |->
                        IntOf(Quantity(w_init, w_new, q, NavUsed(arg), key))]]

\* the loop "for key in w_init.keys()" over the keys in their dict order: the
\* mapping it returns, or the exception of the first key that raises (the
\* quantities computed before it are lost with the local dict)
calc_order_quantities(keys, w_init, w_new, q, arg) ==
    LET n == FirstRaising(keys, w_init, w_new, q, NavUsed(arg))
    IN  IF n = 0
        THEN [outcome |-> "ok",
              value |-> [key \in DOMAIN w_init |->
                            IntOf(Quantity(w_init, w_new, q, NavUsed(arg), key))]]
        ELSE [outcome |-> KeyOutcome(w_init, w_new, q, NavUsed(arg), keys[n]),
              value |-> EmptyMap]

CalcOrderQuantities ==
    /\ calcOut.outcome = None
    /\ \E w_init \in Maps(CalcSymbols, Weights), w_new \in Maps(CalcSymbols, Weights),
          q \in Maps(CalcSymbols, QuoteValues),
          arg \in {[given |-> FALSE, v |-> <<0, 1>>]}
                     \cup {[given |-> TRUE, v |-> n] : n \in Navs} :
          \E keys \in KeyOrders(DOMAIN w_init) :
              /\ calcIn' = [keys |-> keys, w_init |-> w_init, w_new |-> w_new,
                            quotes |-> q, nav |-> arg]
              /\ calcOut' = calc_order_quantities(keys, w_init, w_new, q, arg)
    /\ UNCHANGED <<nav, connVars, regVars, ordVars, pfVars>>

\* the portfolio of the call: EquityPortfolio(contracts, nav)
InitCalc ==
    /\ ConnInit
    /\ regClass = "EquityContracts"
    /\ contract_list = PortfolioContracts
    /\ regOut = NoRegOut
    /\ nav \in Navs
    /\ CalcIdle

NextCalc == CalcOrderQuantities

SpecCalc == InitCalc /\ [][NextCalc]_vars

(***************************************************************************)
(* Orders (portfolios.py prepare_orders / place_orders, api.py             *)
(* nextValidId).                                                           *)
(***************************************************************************)
MaxIssued == 3      \* prepare_orders runs while fewer ids than this are given
MaxOrderId == 2     \* the broker announces an id in 1..MaxOrderId

Abs(n) == IF n >= 0 THEN n ELSE 0 - n

\* the side of an order whatever its quantity
SideBuy(value) == "BUY"

\* order.action = 'BUY' if value > 0 else 'SELL'
Side(value) == IF value > 0 THEN "BUY" ELSE "SELL"

\* the Order object the loop body builds for a quantity
MkOrder(id, value, order_type) ==
    [orderId |-> id, totalQuantity |-> Abs(value), orderType |-> order_type,
     action |-> Side(value)]

\* every Order given the id the connection held when the loop began
OrderIdSame(first, i) == first

\* the id of the i-th Order of the loop: order.orderId = connection.nextorderId
\* followed by connection.nextorderId += 1, once per key
OrderIdAt(first, i) == first + i - 1

Range(seq) == {seq[i] : i \in DOMAIN seq}

RaisedOrders(outcome) ==
    [outcome |-> outcome, keys |-> <<>>, value |-> EmptyMap, quantities |-> EmptyMap]

\* prepare_orders: the orders dict it returns (with the order of its keys and
\* the local order_quantities), the connection's nextorderId afterwards and
\* the ids it gave to Order objects
prepare_orders(keys, w_init, w_new, q) ==
    LET cq == calc_order_quantities(keys, w_init, w_new, q,
                                    [given |-> FALSE, v |-> <<0, 1>>])
        kept == SelectSeq(keys, LAMBDA k : cq.value[k] # 0)
    IN  IF cq.outcome # "ok"
        THEN [orders |-> RaisedOrders(cq.outcome), next |-> nextorderId, ids |-> <<>>]
        ELSE IF keys # <<>> /\ nextorderId = NoAttr
        THEN [orders |-> RaisedOrders("AttributeError"), next |-> nextorderId,
              ids |-> <<>>]
        ELSE [orders |->
                 [outcome |-> "ok",
                  keys |-> kept,
                  value |-> [k \in Range(kept) |->
                                MkOrder(OrderIdAt(nextorderId, IndexOf(keys, k)),
                                        cq.value[k], "MKT")],
                  quantities |-> cq.value],
              next |-> nextorderId + Len(keys),
              ids |-> [i \in DOMAIN keys |-> OrderIdAt(nextorderId, i)]]

\* the weights and quotes prepare_orders is called with: a weight of nothing
\* or of the largest weight, a quote of zero or of one
OrdWeights == {<<0, WeightDen>>, <<MaxWeight, WeightDen>>}

OrdQuotes == {<<0, 1>>, <<1, 1>>}

PrepareOrders ==
    /\ Len(issued) < MaxIssued
    /\ \E w_init \in Maps(CalcSymbols, OrdWeights),
          w_new \in Maps(CalcSymbols, OrdWeights),
          q \in Maps(CalcSymbols, OrdQuotes) :
          \E keys \in KeyOrders(DOMAIN w_init) :
              LET po == prepare_orders(keys, w_init, w_new, q)
              IN  /\ orders' = po.orders
                  /\ nextorderId' = po.next
                  /\ issued' = issued \o po.ids
    /\ UNCHANGED <<nav, calcIn, calcOut, placeOut, connVars, regVars, pfVars>>

\* IBapi.nextValidId: the broker announces the next valid order id once the
\* connection is up
nextValidId ==
    /\ nextorderId = NoAttr
    /\ \E orderId \in 1..MaxOrderId : nextorderId' = orderId
    /\ UNCHANGED <<nav, calcIn, calcOut, orders, issued, placeOut, connVars, regVars, pfVars>>

\* the position in the orders dict of the first symbol the registry does not
\* hold (get_contract returns None for it), 0 when it holds them all
FirstWithoutContract(keys) ==
    IF \E i \in DOMAIN keys : IndexOf(get_symbols(contract_list), keys[i]) = 0
    THEN CHOOSE i \in DOMAIN keys :
            /\ IndexOf(get_symbols(contract_list), keys[i]) = 0
            /\ \A j \in 1..(i - 1) : IndexOf(get_symbols(contract_list), keys[j]) # 0
    ELSE 0

\* place_orders over the orders dict: one place_order per item, in dict order.
\* connection.placeOrder with contract None either raises (the client reads
\* the contract's fields), which ends the loop, or returns (the client is not
\* connected and only reports it); place_orders itself returns None.
place_orders(ords, raises) ==
    LET n == FirstWithoutContract(ords.keys)
        made == IF raises /\ n # 0 THEN n - 1 ELSE Len(ords.keys)
    IN  [outcome |-> IF raises /\ n # 0 THEN "AttributeError" ELSE "ok",
         returned |-> None,
         calls |-> [i \in 1..made |->
                       [orderId |-> ords.value[ords.keys[i]].orderId,
                        symbol |-> ords.keys[i],
                        contract |-> IndexOf(get_symbols(contract_list),
                                             ords.keys[i]) # 0]]]

PlaceOrders ==
    /\ orders.outcome = "ok"
    /\ \E raises \in BOOLEAN : placeOut' = place_orders(orders, raises)
    /\ UNCHANGED <<nav, calcIn, calcOut, nextorderId, orders, issued, connVars, regVars, pfVars>>

\* a portfolio whose registry holds every symbol of the weights, or only the
\* first of them, with the largest NAV
InitOrd ==
    /\ ConnInit
    /\ regClass = "EquityContracts"
    /\ contract_list \in {PortfolioContracts, SubSeq(PortfolioContracts, 1, 1)}
    /\ regOut = NoRegOut
    /\ nav = <<MaxNav, 1>>
    /\ CalcIdle

NextOrd ==
    \/ nextValidId
    \/ PrepareOrders
    \/ PlaceOrders

SpecOrd == InitOrd /\ [][NextOrd]_vars

(***************************************************************************)
(* The portfolio object (portfolios.py EquityPortfolio.__init__,           *)
(* IBPortfolio.__init__, the contracts and nav properties).                *)
(***************************************************************************)
\* what is handed over as a registry: an object of one of the two registry
\* classes, or a plain list
ContractsArgs == RegClasses \cup {"list"}

\* what is handed over as a NAV: an int, a float (NaN included) or a str
NavArgs ==
    {[type |-> "int", v |-> <<k, 1>>] : k \in 0..MaxNav}
        \cup {[type |-> "float", v |-> n] : n \in Navs}
        \cup {[type |-> "str", v |-> <<0, 1>>]}

\* isinstance(contracts, EquityContracts)
IsEquityContracts(value) == value = "EquityContracts"

\* the test of the contracts setter: isinstance(value, IBContracts)
IsIBContracts(value) == value \in RegClasses

\* the test of the nav setter, after an int has been made a float
IsFloat(value) == value.type \in {"int", "float"}

PfDone(op, arg, outcome) == pfOut' = [op |-> op, arg |-> arg, outcome |-> outcome]

\* EquityPortfolio(contracts, nav): the isinstance test of the subclass, then
\* IBPortfolio.__init__ assigns through the two setters; a TypeError leaves
\* no portfolio
EquityPortfolio_Init ==
    /\ pfContracts = None
    /\ \E contracts \in ContractsArgs, value \in NavArgs :
          IF IsEquityContracts(contracts) /\ IsIBContracts(contracts) /\ IsFloat(value)
          THEN /\ pfContracts' = contracts
               /\ nav' = value.v
               /\ PfDone("__init__", [contracts |-> contracts, nav |-> value], "ok")
          ELSE /\ UNCHANGED <<pfContracts, nav>>
               /\ PfDone("__init__", [contracts |-> contracts, nav |-> value],
                         "TypeError")
    /\ UNCHANGED <<calcIn, calcOut, ordVars, connVars, regVars>>

\* portfolio.contracts = value
SetContracts ==
    /\ pfContracts # None
    /\ \E value \in ContractsArgs :
          IF IsIBContracts(value)
          THEN /\ pfContracts' = value
               /\ PfDone("contracts", value, "ok")
          ELSE /\ UNCHANGED pfContracts
               /\ PfDone("contracts", value, "TypeError")
    /\ UNCHANGED <<nav, calcIn, calcOut, ordVars, connVars, regVars>>

\* portfolio.nav = value
SetNav ==
    /\ pfContracts # None
    /\ \E value \in NavArgs :
          IF IsFloat(value)
          THEN /\ nav' = value.v
               /\ PfDone("nav", value, "ok")
          ELSE /\ UNCHANGED nav
               /\ PfDone("nav", value, "TypeError")
    /\ UNCHANGED <<pfContracts, calcIn, calcOut, ordVars, connVars, regVars>>

InitPort ==
    /\ ConnInit
    /\ RegIdle
    /\ nav = <<0, 1>>
    /\ CalcIdle

NextPort ==
    \/ EquityPortfolio_Init
    \/ SetContracts
    \/ SetNav

SpecPort == InitPort /\ [][NextPort]_vars

(***************************************************************************)
(* What the broker sent, read off its log.                                 *)
(***************************************************************************)
Log(r) == reqs[r].log

\* the requests of the operation started last
ReqsOfCall(kind) == {r \in ReqsOf(kind) : reqs[r].call = calls}

\* the latest request of a kind for a symbol whose buffer the caller has read
ReadReq(kind, s) ==
    Max({r \in ReqsOf(kind) : reqs[r].sym = s /\ reqs[r].st # "wait"})

\* the position of the end-of-stream signal in the log, 0 when there is none
EndAt(r) ==
    IF Ended(r) THEN CHOOSE k \in 1..Len(Log(r)) : Log(r)[k].end ELSE 0

\* the payloads sent before the end-of-stream signal
BeforeEnd(r) == [k \in 1..(EndAt(r) - 1) |-> Log(r)[k].ev]

\* the end-of-stream signal came while the caller was waiting on the request
EndedInTime(r) == Ended(r) /\ Log(r)[EndAt(r)].ph = "wait"

\* a price for the tick name came for the request while the caller waited on it
TickInTime(r, name) ==
    \E k \in 1..Len(Log(r)) :
        Log(r)[k].ph = "wait" /\ TickTypeToStr(Log(r)[k].ev[1]) = name

Returned(op) == pc = "idle" /\ result.op = op

(***************************************************************************)
(* C1. Quote buffers are isolated per request: every price in the quote    *)
(* recorded for a symbol was delivered by a tickPrice callback carrying    *)
(* the request id of that symbol's own request.                            *)
(***************************************************************************)
C1_QuoteIsolation ==
    \A s \in DOMAIN quotes : \A name \in DOMAIN quotes[s] :
        \E k \in 1..Len(Log(ReadReq("mkt", s))) :
            /\ TickTypeToStr(Log(ReadReq("mkt", s))[k].ev[1]) = name
            /\ Log(ReadReq("mkt", s))[k].ev[2] = quotes[s][name]

(***************************************************************************)
(* C2. Partial quote failure: when get_quotes returns and some, but not    *)
(* all, of its instruments received no price for the requested tick type   *)
(* while the caller waited, the call reports PartialQuoteFailure and       *)
(* returns prices for exactly the other symbols.                           *)
(***************************************************************************)
Missing ==
    {reqs[r].sym : r \in {q \in ReqsOfCall("mkt") :
                            ~TickInTime(q, LookupTick(tick_type))}}

Priced ==
    {reqs[r].sym : r \in {q \in ReqsOfCall("mkt") :
                            TickInTime(q, LookupTick(tick_type))}}

C2_PartialQuoteFailure ==
    (Returned("get_quotes") /\ Missing # {} /\ Priced # {})
        => /\ result.outcome = "PartialQuoteFailure"
           /\ DOMAIN result.value = Priced

(***************************************************************************)
(* C3. Request ids are never reused: every market-data, historical-data    *)
(* and multi-account positions request carries an id strictly greater      *)
(* than the id of every request issued before it.                          *)
(***************************************************************************)
C3_RequestIdsIncrease ==
    \A i, j \in 1..Len(reqs) :
        (i < j /\ reqs[i].kind # "pos" /\ reqs[j].kind # "pos")
            => reqs[i].id < reqs[j].id

(***************************************************************************)
(* C6. Positions snapshot is refreshed in full: once the end-of-positions  *)
(* signal of a positions request has come, the snapshot the request stored *)
(* holds exactly the rows the broker delivered for it before that signal.  *)
(***************************************************************************)
LastReq == Len(reqs)

C6_PositionsInFull ==
    ((Returned("request_positions") \/ Returned("request_positions_multi"))
        /\ result.outcome = "ok" /\ Ended(LastReq))
        => positions.rows = BeforeEnd(LastReq)

(***************************************************************************)
(* C7. Historical series per instrument: once request_historical_data has  *)
(* returned, the rows of the result for an instrument whose request has    *)
(* received its end-of-data signal are the bars the broker delivered for   *)
(* that request, in the order sent.                                        *)
(***************************************************************************)
SeriesOf(frame, s) == SelectSeq(frame, LAMBDA row : row.symbol = s)

BarsOf(r) == [k \in 1..Len(BeforeEnd(r)) |-> HistRow(BeforeEnd(r)[k], reqs[r].sym)]

C7_SeriesPerInstrument ==
    Returned("request_historical_data")
        => \A r \in ReqsOfCall("hist") :
              Ended(r) => SeriesOf(result.value, reqs[r].sym) = BarsOf(r)

(***************************************************************************)
(* C8. Stray and late events are dropped: a callback for a request whose   *)
(* operation has already returned leaves no trace in a later result, so    *)
(* every price, bar and position row of a result that came with a request  *)
(* id was delivered while the request of that id was outstanding.          *)
(***************************************************************************)
\* the payloads delivered for requests of a kind while they were outstanding
TimelyOf(r) ==
    {Log(r)[k].ev : k \in {n \in 1..Len(Log(r)) :
                             Log(r)[n].ph # "returned" /\ ~Log(r)[n].end}}

Timely(kind) == UNION {TimelyOf(r) : r \in ReqsOf(kind)}

C8_LateEventsDropped ==
    /\ \A s \in DOMAIN quotes : \A name \in DOMAIN quotes[s] :
          \E ev \in Timely("mkt") :
              TickTypeToStr(ev[1]) = name /\ ev[2] = quotes[s][name]
    /\ \A i \in 1..Len(hist_out) :
          \E ev \in Timely("hist") : HistRow(ev, hist_out[i].symbol) = hist_out[i]
    /\ \A i \in 1..Len(positions.rows) :
          Len(positions.rows[i]) = Len(MultiColumns)
              => positions.rows[i] \in Timely("multi")

(***************************************************************************)
(* C9. Timeout is an error outcome: an operation that returns although a   *)
(* request of it saw no terminal callback while the caller waited          *)
(* resolves to a Timeout error.                                            *)
(***************************************************************************)
Terminal(r) ==
    IF reqs[r].kind = "mkt"
    THEN TickInTime(r, LookupTick(tick_type))
    ELSE EndedInTime(r)

C9_TimeoutIsError ==
    (pc = "idle" /\ result.op # None
        /\ \E r \in 1..Len(reqs) : reqs[r].call = calls /\ ~Terminal(r))
        => result.outcome = "Timeout"

(***************************************************************************)
(* C4. Registry class consistency: every member of an EquityContracts      *)
(* registry has secType STK and every member of an FXContracts registry    *)
(* has secType CASH.                                                       *)
(***************************************************************************)
C4_ClassConsistent ==
    regClass # None
        => \A i \in 1..Len(contract_list) :
              contract_list[i].secType = FixedSecType(regClass)

(***************************************************************************)
(* C5. Registry symbol uniqueness: no two members of a registry have the   *)
(* same symbol.                                                            *)
(***************************************************************************)
UniqueSymbols(cl) == \A i, j \in 1..Len(cl) : i # j => cl[i].symbol # cl[j].symbol

C5_UniqueSymbols ==
    [][(regOut'.op \in {"__init__", "add_contract", "add_contract_from_symbol",
                        "remove_contract"}
          /\ UniqueSymbols(contract_list))
        => UniqueSymbols(contract_list')]_vars

(***************************************************************************)
(* C10. calc_order_quantities returns a mapping over exactly the keys of   *)
(* w_init whose value for a key is (w_new[key] - w_init[key]) * nav /      *)
(* quotes[key] with the fractional part dropped (rounded toward zero, for  *)
(* negative as for positive values), nav being the portfolio's NAV when    *)
(* no nav argument is given.                                               *)
(***************************************************************************)
\* the exact value for a key as the fraction ExactNum / ExactDen, ExactDen > 0
NavOfClaim == IF calcIn.nav.given THEN calcIn.nav.v ELSE nav

ExactNum(key) ==
    (calcIn.w_new[key][1] * calcIn.w_init[key][2]
        - calcIn.w_init[key][1] * calcIn.w_new[key][2])
      * NavOfClaim[1] * calcIn.quotes[key][2]

ExactDen(key) ==
    calcIn.w_new[key][2] * calcIn.w_init[key][2] * NavOfClaim[2] * calcIn.quotes[key][1]

TowardZero(n, d, r) ==
    /\ n >= 0 => (r >= 0 /\ r * d <= n /\ n < (r + 1) * d)
    /\ n <= 0 => (r <= 0 /\ (r - 1) * d < n /\ n <= r * d)

C10_OrderQuantities ==
    calcOut.outcome = "ok"
        => /\ DOMAIN calcOut.value = DOMAIN calcIn.w_init
           /\ \A key \in DOMAIN calcIn.w_init :
                 TowardZero(ExactNum(key), ExactDen(key), calcOut.value[key])

\* a call without a nav argument that returned a quantity of -2 or less cut
\* from a value that is not whole, and a positive one cut likewise
C10_Witness ==
    /\ calcOut.outcome = "ok"
    /\ ~calcIn.nav.given
    /\ \E key \in DOMAIN calcOut.value :
          /\ calcOut.value[key] <= 0 - 2
          /\ calcOut.value[key] * ExactDen(key) # ExactNum(key)
    /\ \E key \in DOMAIN calcOut.value :
          /\ calcOut.value[key] >= 2
          /\ calcOut.value[key] * ExactDen(key) # ExactNum(key)

(***************************************************************************)
(* C11. Errors of calc_order_quantities.  The keys of w_init are worked    *)
(* through in their dict order and the call fails at the first key whose   *)
(* evaluation raises: KeyError when w_new or quotes has no entry for it,   *)
(* ZeroDivisionError when its quote is zero, ValueError when the value is  *)
(* NaN.  A failed call returns no quantities at all, and no call changes   *)
(* the portfolio's NAV or its registry.                                    *)
(***************************************************************************)
ZeroQuoted ==
    {k \in DOMAIN calcIn.w_init \cap DOMAIN calcIn.quotes : calcIn.quotes[k][1] = 0}

Unquoted == DOMAIN calcIn.w_init \ DOMAIN calcIn.quotes

Unweighted == DOMAIN calcIn.w_init \ DOMAIN calcIn.w_new

FaultyKeys ==
    IF IsNaN(NavOfClaim) THEN DOMAIN calcIn.w_init
    ELSE ZeroQuoted \cup Unquoted \cup Unweighted

FirstFaulty ==
    calcIn.keys[CHOOSE i \in DOMAIN calcIn.keys :
                    /\ calcIn.keys[i] \in FaultyKeys
                    /\ \A j \in 1..(i - 1) : calcIn.keys[j] \notin FaultyKeys]

ErrorOf(k) ==
    IF k \in Unweighted \cup Unquoted THEN "KeyError"
    ELSE IF k \in ZeroQuoted THEN "ZeroDivisionError"
    ELSE "ValueError"

CalcFailsAtFirstFaulty ==
    FaultyKeys # {}
        => calcOut.outcome = ErrorOf(FirstFaulty) /\ calcOut.value = EmptyMap

C11_CalcErrors ==
    [][(calcOut.outcome = None /\ calcOut'.outcome # None)
          => /\ CalcFailsAtFirstFaulty'
             /\ nav' = nav
             /\ contract_list' = contract_list
             /\ regClass' = regClass]_vars

\* the first key was fine and the second has a zero quote: the call failed
\* after a quantity had been computed
C11_Witness ==
    /\ Len(calcIn.keys) = 2
    /\ calcIn.keys[1] \notin FaultyKeys
    /\ calcIn.keys[2] \in ZeroQuoted
    /\ calcOut.outcome = "ZeroDivisionError"

\* C11 as worded, for a w_new that has every key of w_init: a zero quote of
\* a symbol of w_init gives ZeroDivisionError and a symbol of w_init without
\* a quote gives KeyError, no quantities returned
C11_AsWorded ==
    (calcOut.outcome # None /\ Unweighted = {})
        => /\ ZeroQuoted # {} => calcOut.outcome = "ZeroDivisionError"
           /\ Unquoted # {} => calcOut.outcome = "KeyError"
           /\ (ZeroQuoted \cup Unquoted) # {} => calcOut.value = EmptyMap

(***************************************************************************)
(* C12. Filtering and side of prepare_orders: the orders it returns are    *)
(* those of the symbols whose computed quantity is not zero; an order is   *)
(* a BUY when the quantity is positive and a SELL when it is negative,     *)
(* and its totalQuantity is the absolute value of the quantity.            *)
(***************************************************************************)
C12_OrdersFilterAndSide ==
    orders.outcome = "ok"
        => /\ DOMAIN orders.value =
                {k \in DOMAIN orders.quantities : orders.quantities[k] # 0}
           /\ \A k \in DOMAIN orders.value :
                 /\ orders.quantities[k] > 0
                      => /\ orders.value[k].action = "BUY"
                         /\ orders.value[k].totalQuantity = orders.quantities[k]
                 /\ orders.quantities[k] < 0
                      => /\ orders.value[k].action = "SELL"
                         /\ orders.value[k].totalQuantity = 0 - orders.quantities[k]

\* a call that computed a quantity of zero for one symbol and sold two or
\* more of the other
C12_Witness ==
    /\ orders.outcome = "ok"
    /\ \E k \in DOMAIN orders.quantities : orders.quantities[k] = 0
    /\ \E k \in DOMAIN orders.value :
          orders.quantities[k] <= 0 - 2 /\ orders.value[k].action = "SELL"

(***************************************************************************)
(* C13. Fresh order id per order: once the broker has announced the next   *)
(* valid order id, the ids given to orders grow strictly in the order the  *)
(* orders are created, over all prepare_orders calls; every order a call   *)
(* returns carries an id greater than every id given before that call and  *)
(* different from the ids of the other orders it returns; and the          *)
(* connection's nextorderId is greater than every id given so far.         *)
(***************************************************************************)
IssuedBefore ==
    SubSeq(issued, 1, Len(issued) - Cardinality(DOMAIN orders.quantities))

C13_FreshOrderIds ==
    /\ \A i, j \in DOMAIN issued : i < j => issued[i] < issued[j]
    /\ \A i \in DOMAIN issued : nextorderId > issued[i]
    /\ orders.outcome = "ok"
          => /\ \A k \in DOMAIN orders.value :
                   /\ \E i \in DOMAIN issued : issued[i] = orders.value[k].orderId
                   /\ \A i \in DOMAIN IssuedBefore :
                         orders.value[k].orderId > IssuedBefore[i]
             /\ \A k, l \in DOMAIN orders.value :
                   k # l => orders.value[k].orderId # orders.value[l].orderId

\* a second prepare_orders call that returned two orders
C13_Witness ==
    /\ orders.outcome = "ok"
    /\ Cardinality(DOMAIN orders.value) = 2
    /\ IssuedBefore # <<>>

(***************************************************************************)
(* C14. Order submission is independent per order: when place_orders was   *)
(* given several orders and the submission of one of them fails (the       *)
(* registry holds no contract for its symbol), every other order of the    *)
(* mapping has still been handed to placeOrder when place_orders is over,  *)
(* and the caller has received a result per symbol.                        *)
(***************************************************************************)
FailedSubmissions ==
    {k \in DOMAIN orders.value : IndexOf(get_symbols(contract_list), k) = 0}

C14_IndependentSubmission ==
    (placeOut.outcome # None /\ Cardinality(DOMAIN orders.value) >= 2
        /\ FailedSubmissions # {})
        => /\ \A k \in DOMAIN orders.value \ FailedSubmissions :
                 \E i \in DOMAIN placeOut.calls : placeOut.calls[i].symbol = k
           /\ placeOut.returned # None

(***************************************************************************)
(* C15. Type-mismatched add is rejected atomically: add_contract with a    *)
(* contract whose secType is not the one of the registry's class fails     *)
(* (ValueError) and leaves the member list as it was.                      *)
(***************************************************************************)
C15_MismatchedAddRejected ==
    [][(regOut'.op = "add_contract"
          /\ regOut'.arg.secType # (IF regClass = "EquityContracts" THEN "STK" ELSE "CASH"))
        => /\ regOut'.outcome = "ValueError"
           /\ contract_list' = contract_list]_vars

\* a mismatched add refused by a registry that holds members
C15_Witness ==
    /\ regOut.op = "add_contract"
    /\ regOut.outcome = "ValueError"
    /\ contract_list # <<>>

(***************************************************************************)
(* C16. Removing a symbol: remove_contract(symbol) for a symbol no member  *)
(* holds fails (ValueError) and leaves the registry as it was; for a       *)
(* symbol that is present it removes one member with that symbol and       *)
(* leaves every other member, and their order, as they were.               *)
(***************************************************************************)
Held(symbol) == \E i \in 1..Len(contract_list) : contract_list[i].symbol = symbol

C16_Remove ==
    [][regOut'.op = "remove_contract"
        => IF ~Held(regOut'.arg)
           THEN /\ regOut'.outcome = "ValueError"
                /\ contract_list' = contract_list
           ELSE /\ regOut'.outcome = "ok"
                /\ Len(contract_list') = Len(contract_list) - 1
                /\ \E i \in 1..Len(contract_list) :
                      /\ contract_list[i].symbol = regOut'.arg
                      /\ \A j \in 1..(i - 1) : contract_list'[j] = contract_list[j]
                      /\ \A j \in i..Len(contract_list') :
                            contract_list'[j] = contract_list[j + 1]]_vars

\* a removal that left two members behind
C16_Witness ==
    /\ regOut.op = "remove_contract"
    /\ regOut.outcome = "ok"
    /\ Len(contract_list) = 2

(***************************************************************************)
(* C17. Add-then-get round trip: after add_contract_from_symbol(s, ...)    *)
(* has added a contract, whatever the registry held before,                *)
(* get_contract(s) returns a contract whose symbol is s and whose secType  *)
(* is the registry's fixed security type.                                  *)
(***************************************************************************)
C17_AddThenGet ==
    [][(regOut'.op = "add_contract_from_symbol" /\ regOut'.outcome = "ok")
        => /\ get_contract(contract_list', regOut'.arg.text).symbol = regOut'.arg.text
           /\ get_contract(contract_list', regOut'.arg.text).secType =
                 (IF regClass = "EquityContracts" THEN "STK" ELSE "CASH")]_vars

(***************************************************************************)
(* C18. Blank symbols are rejected: add_contract_from_symbol with an       *)
(* empty or whitespace-only symbol, or with a symbol that is not a string, *)
(* fails (ValueError) in both registry classes and leaves the member list  *)
(* as it was.                                                              *)
(***************************************************************************)
OnlySpaces(text) == \A i \in 1..Len(Chars(text)) : Chars(text)[i] = " "

C18_BlankSymbolRejected ==
    [][(regOut'.op = "add_contract_from_symbol"
          /\ (regOut'.arg.type # "str" \/ OnlySpaces(regOut'.arg.text)))
        => /\ regOut'.outcome = "ValueError"
           /\ contract_list' = contract_list]_vars

\* a whitespace-only symbol refused by a registry that holds members
C18_Witness ==
    /\ regOut.op = "add_contract_from_symbol"
    /\ regOut.arg.type = "str"
    /\ regOut.arg.text = "  "
    /\ regOut.outcome = "ValueError"
    /\ contract_list # <<>>

(***************************************************************************)
(* C19. Position buffer rows have one shape at read time: at the moment    *)
(* request_positions builds its snapshot every row of data_account has     *)
(* the four fields of a position callback, and at the moment               *)
(* request_positions_multi builds its snapshot every row has the six       *)
(* fields of a positionMulti callback, however the callbacks of the two    *)
(* kinds of request interleave with the calls.                             *)
(***************************************************************************)
RowsOfShape(n) == \A i \in 1..Len(data_account) : Len(data_account[i]) = n

C19_OneShapeAtRead ==
    [][/\ (pc = "p_sleep" /\ pc' = "idle") => RowsOfShape(Len(PosColumns))
       /\ (pc = "pm_sleep" /\ pc' = "idle") => RowsOfShape(Len(MultiColumns))]_vars

(***************************************************************************)
(* C20. Equity portfolio registry type invariant: the contracts object of  *)
(* an EquityPortfolio is an EquityContracts registry after construction    *)
(* and after every assignment to its contracts and nav properties, and     *)
(* constructing or re-assigning with an FXContracts registry fails with a  *)
(* TypeError and leaves the portfolio's registry and NAV as they were.     *)
(***************************************************************************)
GivenFX ==
    \/ pfOut.op = "__init__" /\ pfOut.arg.contracts = "FXContracts"
    \/ pfOut.op = "contracts" /\ pfOut.arg = "FXContracts"

C20_EquityRegistryOnly ==
    [][/\ pfContracts' # None => pfContracts' = "EquityContracts"
       /\ GivenFX' => /\ pfOut'.outcome = "TypeError"
                      /\ pfContracts' = pfContracts
                      /\ nav' = nav]_vars

====
